---------------------------- MODULE Spec2Model ----------------------------
(***************************************************************************)
(* Model of chob_tools/algorithms/topological_sort.py.                     *)
(*                                                                         *)
(* A Python dict (insertion ordered) from node to list of nodes is a       *)
(* sequence of items [node |-> n, neighbours |-> <<...>>] with distinct    *)
(* nodes; iteration over the dict is iteration over the sequence.  Nodes   *)
(* are the non-empty strings of the source, modelled by 1 .. 3 with the    *)
(* order of the integers standing for the order of the strings.  An        *)
(* exception that leaves a function is a value: the record's "error" field *)
(* names the exception class.                                              *)
(***************************************************************************)
EXTENDS Integers, Sequences, FiniteSets, TLC

\* The node names of the inputs: three strings, "A" < "B" < "C".
Nodes == {1, 2, 3}

\* Largest number of neighbour entries (over all keys) of an input mapping.
MaxEdges == 3

\* The same for the calls that look at how a cycle is reported: two cycles that
\* share a node take four entries.
MaxCycleEdges == 4

\* The same for the calls that look at the argument checks, which never read
\* the mapping.
MaxFacadeEdges == 2

\* Recursion depth at which the interpreter gives up (RecursionError).  Every
\* chain of calls of _get_cycle's dfs that does not repeat a node is shorter
\* than this, so hitting it means the recursion would never return.
RecursionLimit == 6

\* Python's None where a node is expected (line 20); where a path is expected
\* None is the empty sequence, which no path is.
None == 0

NoPath == <<>>

---------------------------------------------------------------------------
(* dict helpers *)

Item(n, nbs) == [node |-> n, neighbours |-> nbs]

KeySeq(d) == [i \in DOMAIN d |-> d[i].node]

Keys(d) == {d[i].node : i \in DOMAIN d}

Index(d, n) == CHOOSE i \in DOMAIN d : d[i].node = n

\* d[n]
Lookup(d, n) == d[Index(d, n)].neighbours

\* d[n] = []: a new key goes last, an existing key keeps its place
SetEmpty(d, n) ==
    IF n \in Keys(d)
        THEN [d EXCEPT ![Index(d, n)].neighbours = <<>>]
        ELSE Append(d, Item(n, <<>>))

\* AppendTo that leaves out an x that d[n] already holds
AppendToOnce(d, n, x) ==
    [d EXCEPT ![Index(d, n)].neighbours =
                  IF \E j \in DOMAIN @ : @[j] = x THEN @ ELSE Append(@, x)]

\* d[n].append(x)
AppendTo(d, n, x) ==
    [d EXCEPT ![Index(d, n)].neighbours = Append(@, x)]

SeqToSet(s) == {s[i] : i \in DOMAIN s}

Reverse(s) == [i \in DOMAIN s |-> s[Len(s) + 1 - i]]

\* Sorted that leaves the batch as it is
SortedAsIs(s) == s

\* sorted(batch): ascending, duplicates kept
RECURSIVE Sorted(_)
Sorted(s) ==
    IF s = <<>> THEN <<>>
    ELSE LET m == CHOOSE i \in DOMAIN s : \A j \in DOMAIN s : s[i] <= s[j]
             rest == [k \in 1 .. Len(s) - 1 |-> IF k < m THEN s[k] ELSE s[k + 1]]
         IN  <<s[m]>> \o Sorted(rest)

---------------------------------------------------------------------------
(* the inputs *)

\* the lists of l nodes
Lists(l) == [1 .. l -> Nodes]

\* the mappings whose keys are, in order, ks, with at most e neighbour entries
RECURSIVE Mappings(_, _)
Mappings(ks, e) ==
    IF ks = <<>> THEN {<<>>}
    ELSE UNION {
           {<<Item(Head(ks), nbs)>> \o rest :
                nbs \in Lists(l), rest \in Mappings(Tail(ks), e - l)} :
           l \in 0 .. e}

KeyOrders ==
    {ks \in UNION {[1 .. k -> Nodes] : k \in 0 .. Cardinality(Nodes)} :
        \A i, j \in DOMAIN ks : i # j => ks[i] # ks[j]}

\* the mappings over Nodes with at most e neighbour entries, in every order of
\* their keys and of their neighbours
GraphsUpTo(e) == UNION {Mappings(ks, e) : ks \in KeyOrders}

Methods     == {"bfs", "dfs", "cfs"}
ReturnTypes == {"nodes", "groups", "bananas"}
GraphTypes  == {"edges", "dependencies", "graph"}

---------------------------------------------------------------------------
(* _get_edges_from_dependencies and _prepare_graph *)

NoIndegree == [n \in Nodes |-> 0]

\* DependenciesLoop that appends the edge as listed, node -> dependency
RECURSIVE DependenciesLoopForward(_, _, _)
DependenciesLoopForward(st, node, dependencies) ==
    IF dependencies = <<>> THEN st
    ELSE LET dependency == Head(dependencies)
             g1 == IF dependency \notin Keys(st.new_graph)
                       THEN SetEmpty(st.new_graph, dependency)
                       ELSE st.new_graph
         IN  IF dependency = node
                 THEN DependenciesLoopForward(st, node, Tail(dependencies))
                 ELSE DependenciesLoopForward(
                          [new_graph |-> AppendTo(g1, node, dependency),
                           indegree |-> [st.indegree EXCEPT ![dependency] = @ + 1]],
                          node, Tail(dependencies))

\* the inner loop of _get_edges_from_dependencies over one key's dependencies
RECURSIVE DependenciesLoop(_, _, _)
DependenciesLoop(st, node, dependencies) ==
    IF dependencies = <<>> THEN st
    ELSE LET dependency == Head(dependencies)
             g1 == IF dependency \notin Keys(st.new_graph)
                       THEN SetEmpty(st.new_graph, dependency)
                       ELSE st.new_graph
         IN  IF dependency = node
                 THEN DependenciesLoop(st, node, Tail(dependencies))
                 ELSE DependenciesLoop(
                          [new_graph |-> AppendTo(g1, dependency, node),
                           indegree |-> [st.indegree EXCEPT ![node] = @ + 1]],
                          node, Tail(dependencies))

RECURSIVE DependenciesItems(_, _)
DependenciesItems(st, items) ==
    IF items = <<>> THEN st
    ELSE LET node == Head(items).node
             g0 == IF node \notin Keys(st.new_graph)
                       THEN SetEmpty(st.new_graph, node)
                       ELSE st.new_graph
         IN  DependenciesItems(
                 DependenciesLoop([st EXCEPT !.new_graph = g0], node,
                                  Head(items).neighbours),
                 Tail(items))

GetEdgesFromDependencies(graph) ==
    DependenciesItems([new_graph |-> <<>>, indegree |-> NoIndegree], graph)

\* NeighboursLoop without the test of lines 68-69
RECURSIVE NeighboursLoopKeepSelf(_, _, _, _)
NeighboursLoopKeepSelf(st, graph, node, neighbours) ==
    IF neighbours = <<>> THEN st
    ELSE LET neighbour == Head(neighbours)
             g1 == IF neighbour \notin Keys(graph)
                       THEN SetEmpty(st.new_graph, neighbour)
                       ELSE st.new_graph
         IN  NeighboursLoopKeepSelf(
                 [new_graph |-> AppendTo(g1, node, neighbour),
                  indegree |-> [st.indegree EXCEPT ![neighbour] = @ + 1]],
                 graph, node, Tail(neighbours))

\* the inner loop of _prepare_graph over one key's neighbours
RECURSIVE NeighboursLoop(_, _, _, _)
NeighboursLoop(st, graph, node, neighbours) ==
    IF neighbours = <<>> THEN st
    ELSE LET neighbour == Head(neighbours)
             g1 == IF neighbour \notin Keys(graph)
                       THEN SetEmpty(st.new_graph, neighbour)
                       ELSE st.new_graph
         IN  IF neighbour = node
                 THEN NeighboursLoop(st, graph, node, Tail(neighbours))
                 ELSE NeighboursLoop(
                          [new_graph |-> AppendTo(g1, node, neighbour),
                           indegree |-> [st.indegree EXCEPT ![neighbour] = @ + 1]],
                          graph, node, Tail(neighbours))

RECURSIVE PrepareItems(_, _, _)
PrepareItems(st, graph, items) ==
    IF items = <<>> THEN st
    ELSE LET node == Head(items).node
         IN  PrepareItems(
                 NeighboursLoop(
                     [st EXCEPT !.new_graph = SetEmpty(st.new_graph, node)],
                     graph, node, Head(items).neighbours),
                 graph, Tail(items))

PrepareGraph(graph) ==
    PrepareItems([new_graph |-> <<>>, indegree |-> NoIndegree], graph, graph)

\* the choice made at lines 136-140 and 180-184
Normalise(graph, graph_type) ==
    IF graph_type = "dependencies"
        THEN GetEdgesFromDependencies(graph)
        ELSE PrepareGraph(graph)

---------------------------------------------------------------------------
(* _get_cycle.  The cache of dfs only saves work: a call that returns gives  *)
(* the same value with and without it.                                       *)

Returned(path) == [error |-> "none", path |-> path]

Thrown(e) == [error |-> e, path |-> NoPath]

RECURSIVE CycleDfs(_, _, _, _)
RECURSIVE CycleDfsLoop(_, _, _, _, _)
\* dfs(curr, level) of _get_cycle, where node is the enclosing function's
\* variable; graph[curr] of a missing key is a KeyError
CycleDfs(graph, node, curr, level) ==
    IF level > RecursionLimit THEN Thrown("RecursionError")
    ELSE IF curr = node /\ level # 0 THEN Returned(<<curr>>)
    ELSE IF curr \notin Keys(graph) THEN Thrown("KeyError")
    ELSE IF Len(Lookup(graph, curr)) = 0 THEN Returned(NoPath)
    ELSE CycleDfsLoop(graph, node, curr, level, Lookup(graph, curr))

\* the for loop of dfs over the neighbours still to try
CycleDfsLoop(graph, node, curr, level, neighbours) ==
    IF neighbours = <<>> THEN Returned(NoPath)
    ELSE LET r == CycleDfs(graph, node, Head(neighbours), level + 1)
         IN  IF r.error # "none" THEN r
             ELSE IF r.path # NoPath THEN Returned(<<curr>> \o r.path)
             ELSE CycleDfsLoop(graph, node, curr, level, Tail(neighbours))

\* the loop `for node in graph` of _get_cycle over the keys still to try
RECURSIVE CycleStarts(_, _)
CycleStarts(graph, starts) ==
    IF starts = <<>> THEN Returned(NoPath)
    ELSE LET r == CycleDfs(graph, Head(starts), Head(starts), 0)
         IN  IF r.error # "none" \/ r.path # NoPath THEN r
             ELSE CycleStarts(graph, Tail(starts))

\* `if node` at line 34 is `node is not None`: the nodes are non-empty strings
GetCycle(graph, node) ==
    IF node # None
        THEN CycleDfs(graph, node, node, 0)
        ELSE CycleStarts(graph, KeySeq(graph))

\* raise CycleError(cycle): the constructor joins the cycle, which fails on None
RaiseCycleError(r) ==
    IF r.error # "none" THEN [error |-> r.error, cycle |-> NoPath]
    ELSE IF r.path = NoPath THEN [error |-> "TypeError", cycle |-> NoPath]
    ELSE [error |-> "CycleError", cycle |-> r.path]

NoError == [error |-> "none", cycle |-> NoPath]

\* the graph restricted to the keys outside visited (lines 80-84)
RECURSIVE Unvisited(_, _)
Unvisited(graph, visited) ==
    IF graph = <<>> THEN <<>>
    ELSE IF Head(graph).node \in visited
        THEN Unvisited(Tail(graph), visited)
        ELSE <<Head(graph)>> \o Unvisited(Tail(graph), visited)

CheckCycle(graph, visited) ==
    IF Cardinality(visited) < Len(graph)
        THEN RaiseCycleError(GetCycle(Unvisited(graph, visited), None))
        ELSE NoError

---------------------------------------------------------------------------
(* _node_generator and _group_generator.  A generator is its frame: the     *)
(* locals and the place ("at") where it is suspended.  One call of next()   *)
(* runs it from there to the next yield, to its end or to an exception.     *)

\* the frame before the first next(), with the queue built at lines 141-144
RECURSIVE ZeroIndegree(_, _)
\* ZeroIndegree without the test of line 143
ZeroIndegreeAll(nodes, indegree) == nodes

ZeroIndegree(nodes, indegree) ==
    IF nodes = <<>> THEN <<>>
    ELSE IF indegree[Head(nodes)] = 0
        THEN <<Head(nodes)>> \o ZeroIndegree(Tail(nodes), indegree)
        ELSE ZeroIndegree(Tail(nodes), indegree)

NewFrame(new_graph, indegree) ==
    [at |-> "start",
     indegree |-> indegree,
     queue |-> ZeroIndegree(KeySeq(new_graph), indegree),
     visited |-> {},
     node |-> None,
     batch |-> <<>>,
     next_degree |-> <<>>,
     group |-> <<>>]

\* Decrement without the test of line 99: every neighbour is made ready
RECURSIVE DecrementUntested(_, _, _)
DecrementUntested(indegree, ready, neighbours) ==
    IF neighbours = <<>> THEN [indegree |-> indegree, ready |-> ready]
    ELSE DecrementUntested(
             [indegree EXCEPT ![Head(neighbours)] = @ - 1],
             Append(ready, Head(neighbours)),
             Tail(neighbours))

\* for neighbour in graph[node]: indegree[neighbour] -= 1; a neighbour that
\* reaches zero is appended to ready (the queue, or next_degree)
RECURSIVE Decrement(_, _, _)
Decrement(indegree, ready, neighbours) ==
    IF neighbours = <<>> THEN [indegree |-> indegree, ready |-> ready]
    ELSE LET neighbour == Head(neighbours)
             d == indegree[neighbour] - 1
         IN  Decrement([indegree EXCEPT ![neighbour] = d],
                       IF d = 0 THEN Append(ready, neighbour) ELSE ready,
                       Tail(neighbours))

\* what one next() gives: the frame after it, the element yielded if any
\* (a sequence of length 0 or 1), and the exception if any
Yield(f, x) == [frame |-> f, yielded |-> <<x>>, raised |-> NoError]

Finish(f, c) ==
    [frame |-> [f EXCEPT !.at = "end"], yielded |-> <<>>, raised |-> c]

\* NodeGeneratorNext with the check of line 101 made at every turn
NodeGeneratorNextEager(graph, f0) ==
    LET dec == Decrement(f0.indegree, f0.queue, Lookup(graph, f0.node))
        f == IF f0.at = "yield"
                 THEN [f0 EXCEPT !.indegree = dec.indegree, !.queue = dec.ready]
                 ELSE f0
        c == CheckCycle(graph, f.visited \cup SeqToSet(f.queue))
    IN  IF f.queue # <<>> /\ c = NoError
            THEN LET node == Head(f.queue)
                 IN  Yield([f EXCEPT !.at = "yield",
                                     !.queue = Tail(f.queue),
                                     !.visited = @ \cup {node},
                                     !.node = node],
                           node)
            ELSE Finish([f EXCEPT !.queue = <<>>], CheckCycle(graph, f.visited))

NodeGeneratorNext(graph, f0) ==
    LET dec == Decrement(f0.indegree, f0.queue, Lookup(graph, f0.node))
        f == IF f0.at = "yield"
                 THEN [f0 EXCEPT !.indegree = dec.indegree, !.queue = dec.ready]
                 ELSE f0
    IN  IF f.queue # <<>>
            THEN LET node == Head(f.queue)
                 IN  Yield([f EXCEPT !.at = "yield",
                                     !.queue = Tail(f.queue),
                                     !.visited = @ \cup {node},
                                     !.node = node],
                           node)
            ELSE Finish(f, CheckCycle(graph, f.visited))

\* the while loop of _group_generator from its test to the next yield
RECURSIVE GroupLoop(_, _, _)
GroupLoop(graph, f, sort_groups) ==
    IF f.queue = <<>> THEN Finish(f, CheckCycle(graph, f.visited))
    ELSE LET node == Head(f.queue)
             batch == Append(f.batch, node)
             dec == Decrement(f.indegree, f.next_degree, Lookup(graph, node))
             f1 == [f EXCEPT !.queue = Tail(f.queue),
                             !.visited = @ \cup {node},
                             !.node = node,
                             !.batch = batch,
                             !.indegree = dec.indegree,
                             !.next_degree = dec.ready]
         IN  IF f1.queue = <<>>
                 THEN Yield([f1 EXCEPT !.at = "yield"],
                            IF sort_groups THEN Sorted(batch) ELSE batch)
                 ELSE GroupLoop(graph, f1, sort_groups)

\* GroupGeneratorNext without the reset of batch at line 124
GroupGeneratorNextKeepBatch(graph, f, sort_groups) ==
    GroupLoop(graph,
              IF f.at = "yield"
                  THEN [f EXCEPT !.queue = f.queue \o f.next_degree,
                                 !.next_degree = <<>>]
                  ELSE f,
              sort_groups)

GroupGeneratorNext(graph, f, sort_groups) ==
    GroupLoop(graph,
              IF f.at = "yield"
                  THEN [f EXCEPT !.queue = f.queue \o f.next_degree,
                                 !.batch = <<>>,
                                 !.next_degree = <<>>]
                  ELSE f,
              sort_groups)

\* GeneratorNext with the test of sort_groups at line 146 left out
GeneratorNextUnsorted(graph, return_type, sort_groups, f) ==
    IF return_type = "nodes"
        THEN NodeGeneratorNext(graph, f)
        ELSE GroupGeneratorNext(graph, f, sort_groups)

\* one next() of topological_sort_generator, after its first lines (136-144)
GeneratorNext(graph, return_type, sort_groups, f) ==
    IF return_type = "nodes"
        THEN IF sort_groups
                 THEN IF f.group # <<>>
                          THEN Yield([f EXCEPT !.group = Tail(@)], Head(f.group))
                          ELSE LET r == GroupGeneratorNext(graph, f, sort_groups)
                               IN  IF r.yielded = <<>> THEN r
                                   ELSE Yield([r.frame EXCEPT
                                                  !.group = Tail(r.yielded[1])],
                                              Head(r.yielded[1]))
                 ELSE NodeGeneratorNext(graph, f)
        ELSE GroupGeneratorNext(graph, f, sort_groups)

---------------------------------------------------------------------------
(* _dfs_topological_sort.  The recursion of its inner dfs is a stack of    *)
(* calls, each with its node and the neighbours its for loop has yet to    *)
(* take; todo is what the loop at line 202 has yet to take.                *)

NewDfs(new_graph) ==
    [sorted_list |-> <<>>,
     visited |-> {},
     currently_visiting |-> {},
     stack |-> <<>>,
     todo |-> KeySeq(new_graph)]

Step(f, c) == [frame |-> f, raised |-> c]

\* DfsCall without currently_visiting.add(node) of line 194
DfsCallUnmarked(graph, new_graph, f, node) ==
    IF node \in f.currently_visiting
        THEN Step(f, RaiseCycleError(GetCycle(graph, node)))
        ELSE Step([f EXCEPT !.stack = Append(@, [node |-> node,
                                                 rest |-> Lookup(new_graph, node)])],
                  NoError)

\* dfs(node) up to its for loop (lines 191-194); the cycle is looked for in
\* graph, the mapping the caller passed, not in new_graph
DfsCall(graph, new_graph, f, node) ==
    IF node \in f.currently_visiting
        THEN Step(f, RaiseCycleError(GetCycle(graph, node)))
        ELSE Step([f EXCEPT !.currently_visiting = @ \cup {node},
                            !.stack = Append(@, [node |-> node,
                                                 rest |-> Lookup(new_graph, node)])],
                  NoError)

\* one turn of the loop at lines 202-204
DfsTop(graph, new_graph, f) ==
    LET node == Head(f.todo)
        f1 == [f EXCEPT !.todo = Tail(@)]
    IN  IF node \notin f.visited
            THEN DfsCall(graph, new_graph, f1, node)
            ELSE Step(f1, NoError)

\* DfsNeighbour with a test that also passes over the nodes being visited
DfsNeighbourSkipActive(graph, new_graph, f) ==
    LET top == Len(f.stack)
        neighbour == Head(f.stack[top].rest)
        f1 == [f EXCEPT !.stack[top].rest = Tail(@)]
    IN  IF neighbour \notin f.visited \cup f.currently_visiting
            THEN DfsCall(graph, new_graph, f1, neighbour)
            ELSE Step(f1, NoError)

\* one turn of the loop at lines 195-197 in the innermost call
DfsNeighbour(graph, new_graph, f) ==
    LET top == Len(f.stack)
        neighbour == Head(f.stack[top].rest)
        f1 == [f EXCEPT !.stack[top].rest = Tail(@)]
    IN  IF neighbour \notin f.visited
            THEN DfsCall(graph, new_graph, f1, neighbour)
            ELSE Step(f1, NoError)

\* DfsReturn without visited.add(node) of line 199
DfsReturnUnmarked(f) ==
    LET top == Len(f.stack)
        node == f.stack[top].node
    IN  [f EXCEPT !.currently_visiting = @ \ {node},
                  !.sorted_list = Append(@, node),
                  !.stack = SubSeq(@, 1, top - 1)]

\* the end of the innermost call (lines 198-200)
DfsReturn(f) ==
    LET top == Len(f.stack)
        node == f.stack[top].node
    IN  [f EXCEPT !.currently_visiting = @ \ {node},
                  !.visited = @ \cup {node},
                  !.sorted_list = Append(@, node),
                  !.stack = SubSeq(@, 1, top - 1)]

---------------------------------------------------------------------------
(* topological_sort *)

\* ArgumentError without the test of line 246
ArgumentErrorUnsorted(method, return_type, sort_groups, graph_type) ==
    IF return_type \notin {"nodes", "groups"} THEN "ValueError"
    ELSE IF graph_type \notin {"edges", "dependencies"} THEN "ValueError"
    ELSE IF method = "bfs" THEN "none"
    ELSE IF method = "dfs"
        THEN IF return_type # "nodes" THEN "ValueError" ELSE "none"
    ELSE "ValueError"

\* what lines 234-254 raise before they call a sort: "none" or "ValueError"
ArgumentError(method, return_type, sort_groups, graph_type) ==
    IF return_type \notin {"nodes", "groups"} THEN "ValueError"
    ELSE IF graph_type \notin {"edges", "dependencies"} THEN "ValueError"
    ELSE IF method = "bfs" THEN "none"
    ELSE IF method = "dfs"
        THEN IF return_type # "nodes" THEN "ValueError"
             ELSE IF sort_groups THEN "ValueError"
             ELSE "none"
    ELSE "ValueError"

\* what topological_sort_generator raises before its first line: it has no check
GeneratorArgumentError(return_type, sort_groups, graph_type) == "none"

\* list(generator) at line 167: next() until the generator ends or raises
RECURSIVE Drain(_, _, _, _, _)
Drain(new_graph, return_type, sort_groups, f, acc) ==
    LET r == GeneratorNext(new_graph, return_type, sort_groups, f)
    IN  IF r.raised.error # "none" THEN [out |-> acc, raised |-> r.raised]
        ELSE IF r.yielded = <<>> THEN [out |-> acc, raised |-> NoError]
        ELSE Drain(new_graph, return_type, sort_groups, r.frame,
                   acc \o r.yielded)

BfsTopologicalSort(graph, return_type, sort_groups, graph_type) ==
    LET st == Normalise(graph, graph_type)
    IN  Drain(st.new_graph, return_type, sort_groups,
              NewFrame(st.new_graph, st.indegree), <<>>)

\* _dfs_topological_sort from a frame to its return or its exception
RECURSIVE DfsRun(_, _, _)
DfsRun(graph, new_graph, f) ==
    IF f.stack = <<>> /\ f.todo = <<>>
        THEN [out |-> Reverse(f.sorted_list), raised |-> NoError]
    ELSE LET r == IF f.stack = <<>> THEN DfsTop(graph, new_graph, f)
                  ELSE IF f.stack[Len(f.stack)].rest # <<>>
                      THEN DfsNeighbour(graph, new_graph, f)
                  ELSE Step(DfsReturn(f), NoError)
         IN  IF r.raised.error # "none"
                 THEN [out |-> <<>>, raised |-> r.raised]
                 ELSE DfsRun(graph, new_graph, r.frame)

DfsTopologicalSort(graph, graph_type) ==
    LET st == Normalise(graph, graph_type)
    IN  DfsRun(graph, st.new_graph, NewDfs(st.new_graph))

\* topological_sort as a function of its arguments
TopologicalSort(graph, m, return_type, sort_groups, graph_type) ==
    IF ArgumentError(m, return_type, sort_groups, graph_type) # "none"
        THEN [out |-> <<>>,
              raised |-> [error |-> "ValueError", cycle |-> NoPath]]
    ELSE IF m = "bfs"
        THEN BfsTopologicalSort(graph, return_type, sort_groups, graph_type)
        ELSE DfsTopologicalSort(graph, graph_type)

---------------------------------------------------------------------------
(* InvertibleDict.  A dict is a function on the set of its keys; an object  *)
(* is its two dicts.  The keys and values are a few of the strings of the   *)
(* tests, some of them usable on both sides.                                *)

KT == {"apple", "orange", "fruit"}

VT == {"fruit", "food", "apple"}

EmptyDict == [x \in {} |-> x]

\* Del that takes every item away
DelAll(m, k) == [x \in {} |-> m[x]]

\* del m[k]
Del(m, k) == [x \in DOMAIN m \ {k} |-> m[x]]

\* m[k] = v
Put(m, k, v) == [x \in DOMAIN m \cup {k} |-> IF x = k THEN v ELSE m[x]]

\* InvertibleDict()
NewDict == [forward |-> EmptyDict, backward |-> EmptyDict]

\* what a call gives: the object after it and the exception if any
Done(self) == [self |-> self, error |-> "none"]

Failed(self, e) == [self |-> self, error |-> e]

\* SetItem without lines 43-44
SetItemKeepStale(self, key, value) ==
    IF value \in DOMAIN self.backward THEN Failed(self, "ValueError")
    ELSE Done([forward |-> Put(self.forward, key, value),
               backward |-> Put(self.backward, value, key)])

\* SetItem without lines 39-40
SetItemUnchecked(self, key, value) ==
    LET backward == IF key \in DOMAIN self.forward
                        THEN Del(self.backward, self.forward[key])
                        ELSE self.backward
    IN  Done([forward |-> Put(self.forward, key, value),
              backward |-> Put(backward, value, key)])

SetItem(self, key, value) ==
    IF value \in DOMAIN self.backward THEN Failed(self, "ValueError")
    ELSE LET backward == IF key \in DOMAIN self.forward
                             THEN Del(self.backward, self.forward[key])
                             ELSE self.backward
         IN  Done([forward |-> Put(self.forward, key, value),
                   backward |-> Put(backward, value, key)])

DelItem(self, key) ==
    IF key \notin DOMAIN self.forward THEN Failed(self, "KeyError")
    ELSE Done([forward |-> Del(self.forward, key),
               backward |-> Del(self.backward, self.forward[key])])

\* the view shares the two dicts of the object, each in the other's place
Inv(self) == [forward |-> self.backward, backward |-> self.forward]

---------------------------------------------------------------------------
(* One call: of topological_sort, or of topological_sort_generator followed *)
(* by calls of next() on what it returned.                                  *)

VARIABLES
    entry,          \* the function called
    graph,          \* its arguments
    method,
    return_type,
    sort_groups,
    graph_type,
    pc,             \* "call", "prepare", "bfs", "dfs", "returned", "raised"
    new_graph,      \* the canonical graph, once built
    gen,            \* the frame of the generator (method bfs)
    dfs,            \* the frame of _dfs_topological_sort
    out,            \* what was yielded so far; at "returned", the result
    raised,         \* the exception that ended the call, with its cycle
    forward,        \* the dicts of invertible_dict
    backward,
    last,           \* the last statement run on it or its view, and how it ended
    start           \* the node given to _get_cycle when it is called alone

vars == <<entry, graph, method, return_type, sort_groups, graph_type, pc,
          new_graph, gen, dfs, out, raised, forward, backward, last, start>>

TheDict == <<forward, backward, last>>

NoStatement ==
    [op |-> "none", on |-> "d", key |-> "None", value |-> "None",
     old |-> "None", error |-> "none"]

NoFrame == [at |-> "unborn"]

InitWith(E, G, M, R, S, T) ==
    /\ entry \in E
    /\ graph \in G
    /\ method \in M
    /\ return_type \in R
    /\ sort_groups \in S
    /\ graph_type \in T
    /\ pc = "call"
    /\ new_graph = <<>>
    /\ gen = NoFrame
    /\ dfs = NoFrame
    /\ out = <<>>
    /\ raised = NoError
    /\ forward = EmptyDict
    /\ backward = EmptyDict
    /\ last = NoStatement
    /\ start = None

Args == <<entry, graph, method, return_type, sort_groups, graph_type, start>>

\* lines 234-254 up to the call of a sort; the generator's body starts unchecked
Validate ==
    /\ pc = "call"
    /\ LET e == IF entry = "topological_sort"
                    THEN ArgumentError(method, return_type, sort_groups, graph_type)
                    ELSE GeneratorArgumentError(return_type, sort_groups, graph_type)
       IN  /\ pc' = IF e = "none" THEN "prepare" ELSE "raised"
           /\ raised' = [error |-> e, cycle |-> NoPath]
    /\ UNCHANGED <<Args, new_graph, gen, dfs, out, TheDict>>

\* lines 136-144, or lines 180-188
Prepare ==
    /\ pc = "prepare"
    /\ LET st == Normalise(graph, graph_type)
       IN  /\ new_graph' = st.new_graph
           /\ IF method = "dfs"
                  THEN /\ dfs' = NewDfs(st.new_graph)
                       /\ gen' = gen
                       /\ pc' = "dfs"
                  ELSE /\ gen' = NewFrame(st.new_graph, st.indegree)
                       /\ dfs' = dfs
                       /\ pc' = "bfs"
    /\ UNCHANGED <<Args, out, raised, TheDict>>

\* one next() on the generator: by list() at line 167, or by the caller
Pull ==
    /\ pc = "bfs"
    /\ LET r == GeneratorNext(new_graph, return_type, sort_groups, gen)
       IN  /\ gen' = r.frame
           /\ out' = out \o r.yielded
           /\ raised' = r.raised
           /\ pc' = IF r.raised.error # "none" THEN "raised"
                    ELSE IF r.yielded = <<>> THEN "returned"
                    ELSE "bfs"
    /\ UNCHANGED <<Args, new_graph, dfs, TheDict>>

DfsDo(r) ==
    /\ dfs' = r.frame
    /\ raised' = r.raised
    /\ pc' = IF r.raised.error # "none" THEN "raised" ELSE "dfs"
    /\ UNCHANGED <<Args, new_graph, gen, out, TheDict>>

DfsTopStep ==
    /\ pc = "dfs"
    /\ dfs.stack = <<>>
    /\ dfs.todo # <<>>
    /\ DfsDo(DfsTop(graph, new_graph, dfs))

DfsNeighbourStep ==
    /\ pc = "dfs"
    /\ dfs.stack # <<>>
    /\ dfs.stack[Len(dfs.stack)].rest # <<>>
    /\ DfsDo(DfsNeighbour(graph, new_graph, dfs))

DfsReturnStep ==
    /\ pc = "dfs"
    /\ dfs.stack # <<>>
    /\ dfs.stack[Len(dfs.stack)].rest = <<>>
    /\ DfsDo(Step(DfsReturn(dfs), NoError))

\* line 206
DfsFinish ==
    /\ pc = "dfs"
    /\ dfs.stack = <<>>
    /\ dfs.todo = <<>>
    /\ out' = Reverse(dfs.sorted_list)
    /\ pc' = "returned"
    /\ UNCHANGED <<Args, new_graph, gen, dfs, raised, TheDict>>

Next ==
    \/ Validate
    \/ Prepare
    \/ Pull
    \/ DfsTopStep
    \/ DfsNeighbourStep
    \/ DfsReturnStep
    \/ DfsFinish

\* the calls of topological_sort on the mappings of G whose arguments pass
\* its checks
ValidCalls(G) ==
    \/ InitWith({"topological_sort"}, G, {"bfs"}, {"nodes", "groups"},
                BOOLEAN, {"edges", "dependencies"})
    \/ InitWith({"topological_sort"}, G, {"dfs"}, {"nodes"},
                {FALSE}, {"edges", "dependencies"})

Init == ValidCalls(GraphsUpTo(MaxEdges))

Spec == Init /\ [][Next]_vars

InitCycle == ValidCalls(GraphsUpTo(MaxCycleEdges))

SpecCycle == InitCycle /\ [][Next]_vars

\* every call of either entry point, with arguments in and out of range
InitFacade ==
    \/ InitWith({"topological_sort"}, GraphsUpTo(MaxFacadeEdges), Methods,
                ReturnTypes, BOOLEAN, GraphTypes)
    \/ InitWith({"topological_sort_generator"}, GraphsUpTo(MaxFacadeEdges),
                {"bfs"}, ReturnTypes, BOOLEAN, GraphTypes)

SpecFacade == InitFacade /\ [][Next]_vars

---------------------------------------------------------------------------
(* invertible_dict = InvertibleDict(), and statements run on it and on its  *)
(* view invertible_dict.inv.                                                *)

InitDict ==
    /\ entry = "InvertibleDict"
    /\ graph = <<>>
    /\ method = "none"
    /\ return_type = "none"
    /\ sort_groups = FALSE
    /\ graph_type = "none"
    /\ pc = "dict"
    /\ new_graph = <<>>
    /\ gen = NoFrame
    /\ dfs = NoFrame
    /\ out = <<>>
    /\ raised = NoError
    /\ forward = NewDict.forward
    /\ backward = NewDict.backward
    /\ last = NoStatement
    /\ start = None

TheSort == <<Args, pc, new_graph, gen, dfs, out, raised>>

invertible_dict == [forward |-> forward, backward |-> backward]

Get(m, k) == IF k \in DOMAIN m THEN m[k] ELSE "None"

\* the statement ran on invertible_dict
OnDict(r, op, key, value) ==
    /\ forward' = r.self.forward
    /\ backward' = r.self.backward
    /\ last' = [op |-> op, on |-> "d", key |-> key, value |-> value,
                old |-> Get(forward, key), error |-> r.error]
    /\ UNCHANGED TheSort

\* the statement ran on invertible_dict.inv, whose dicts are its own
OnInv(r, op, key, value) ==
    /\ forward' = r.self.backward
    /\ backward' = r.self.forward
    /\ last' = [op |-> op, on |-> "inv", key |-> key, value |-> value,
                old |-> Get(backward, key), error |-> r.error]
    /\ UNCHANGED TheSort

\* invertible_dict[key] = value
DictSetItem ==
    /\ pc = "dict"
    /\ \E key \in KT, value \in VT :
           OnDict(SetItem(invertible_dict, key, value), "setitem", key, value)

\* invertible_dict.inv[key] = value
InvSetItem ==
    /\ pc = "dict"
    /\ \E key \in VT, value \in KT :
           OnInv(SetItem(Inv(invertible_dict), key, value), "setitem", key, value)

\* del invertible_dict[key]
DictDelItem ==
    /\ pc = "dict"
    /\ \E key \in KT : OnDict(DelItem(invertible_dict, key), "delitem", key, "None")

\* del invertible_dict.inv[key]
InvDelItem ==
    /\ pc = "dict"
    /\ \E key \in VT : OnInv(DelItem(Inv(invertible_dict), key), "delitem", key, "None")

NextDict ==
    \/ DictSetItem
    \/ InvSetItem
    \/ DictDelItem
    \/ InvDelItem

SpecDict == InitDict /\ [][NextDict]_vars

---------------------------------------------------------------------------
(* _get_cycle called alone, with a start node, on a mapping in which every  *)
(* neighbour is a key.                                                      *)

Closed(g) == \A i \in DOMAIN g : SeqToSet(g[i].neighbours) \subseteq Keys(g)

InitGetCycle ==
    /\ entry = "_get_cycle"
    /\ graph \in {g \in GraphsUpTo(MaxEdges) : Closed(g)}
    /\ start \in Keys(graph)
    /\ method = "none"
    /\ return_type = "none"
    /\ sort_groups = FALSE
    /\ graph_type = "edges"
    /\ pc = "get_cycle"
    /\ new_graph = <<>>
    /\ gen = NoFrame
    /\ dfs = NoFrame
    /\ out = NoPath
    /\ raised = NoError
    /\ forward = EmptyDict
    /\ backward = EmptyDict
    /\ last = NoStatement

\* the call; out is the path returned, or NoPath for None
GetCycleCall ==
    /\ pc = "get_cycle"
    /\ LET r == GetCycle(graph, start)
       IN  /\ out' = r.path
           /\ raised' = [error |-> r.error, cycle |-> NoPath]
           /\ pc' = IF r.error = "none" THEN "returned" ELSE "raised"
    /\ UNCHANGED <<Args, new_graph, gen, dfs, TheDict>>

NextGetCycle == GetCycleCall

SpecGetCycle == InitGetCycle /\ [][NextGetCycle]_vars

---------------------------------------------------------------------------
(* What the properties speak of: the canonical graph as the mapping         *)
(* describes it, not as the code builds it.                                 *)

\* the input keys and every referenced neighbour
CanonNodes(g) ==
    Keys(g) \cup UNION {SeqToSet(g[i].neighbours) : i \in DOMAIN g}

\* the entries of the mapping as pairs <<key, neighbour>>
Entries(g) ==
    UNION {{<<g[i].node, g[i].neighbours[j]>> : j \in DOMAIN g[i].neighbours} :
           i \in DOMAIN g}

\* the edges u -> v: an entry that names its own key is none, and under
\* "dependencies" an entry <<key, prerequisite>> is the edge prerequisite -> key
CanonEdges(g, gt) ==
    LET proper == {e \in Entries(g) : e[1] # e[2]}
    IN  IF gt = "dependencies" THEN {<<e[2], e[1]>> : e \in proper} ELSE proper

RECURSIVE ReachableFrom(_, _)
ReachableFrom(E, S) ==
    LET T == S \cup {e[2] : e \in {x \in E : x[1] \in S}}
    IN  IF T = S THEN S ELSE ReachableFrom(E, T)

HasCycle(E) == \E e \in E : e[1] \in ReachableFrom(E, {e[2]})

\* u and v both occur in s, and every u before every v
Precedes(s, u, v) ==
    /\ \E i \in DOMAIN s : s[i] = u
    /\ \E j \in DOMAIN s : s[j] = v
    /\ \A i, j \in DOMAIN s : s[i] = u /\ s[j] = v => i < j

\* the same for a sequence of batches
BatchPrecedes(s, u, v) ==
    /\ \E i \in DOMAIN s : u \in SeqToSet(s[i])
    /\ \E j \in DOMAIN s : v \in SeqToSet(s[j])
    /\ \A i, j \in DOMAIN s :
           u \in SeqToSet(s[i]) /\ v \in SeqToSet(s[j]) => i < j

\* a node sequence that closes and follows edges of E
IsCycleOf(E, c) ==
    /\ Len(c) >= 2
    /\ c[1] = c[Len(c)]
    /\ \A i \in 1 .. Len(c) - 1 : <<c[i], c[i + 1]>> \in E

TheNodes == CanonNodes(graph)

TheEdges == CanonEdges(graph, graph_type)

Ended == pc \in {"returned", "raised"}

---------------------------------------------------------------------------
(* The properties *)

\* C1. Order respect: when the canonical graph is acyclic, for each of its
\* edges u -> v the flat result (bfs and dfs) has u before v, and the result
\* in groups has u in a batch of strictly smaller index than v's.
OrderRespect ==
    (pc = "returned" /\ ~HasCycle(TheEdges)) =>
        \A e \in TheEdges :
            IF return_type = "nodes"
                THEN Precedes(out, e[1], e[2])
                ELSE BatchPrecedes(out, e[1], e[2])

OrderRespectWitness ==
    /\ pc = "returned"
    /\ method = "dfs"
    /\ Cardinality(TheEdges) = 3
    /\ Cardinality(TheNodes) = 3

\* C2. Permutation: on an acyclic graph a call with return_type "nodes" (bfs
\* or dfs, either graph type) returns, and what it returns holds every node of
\* the canonical graph exactly once and nothing else.
Permutation ==
    return_type = "nodes" =>
        /\ ~HasCycle(TheEdges) => pc # "raised"
        /\ pc = "returned" =>
               /\ Len(out) = Cardinality(TheNodes)
               /\ SeqToSet(out) = TheNodes

PermutationWitness ==
    /\ pc = "returned"
    /\ return_type = "nodes"
    /\ method = "bfs"
    /\ graph_type = "dependencies"
    /\ Len(out) = 3
    /\ Keys(graph) # TheNodes

\* C3. Batch content: with bfs and return_type "groups", batch 0 is the set of
\* nodes without incoming edge, batch i >= 1 is the set of nodes not in an
\* earlier batch whose predecessors all lie in earlier batches, one of them in
\* batch i-1 (their indegree reached zero while batch i-1 was processed); no
\* batch is empty or repeats a node, and on an acyclic graph the batches
\* returned partition the node set.
Batch(i) == SeqToSet(out[i])

Earlier(i) == UNION {Batch(k) : k \in 1 .. i - 1}

Predecessors(n) == {e[1] : e \in {x \in TheEdges : x[2] = n}}

BatchContent ==
    (method = "bfs" /\ return_type = "groups") =>
        /\ \A i \in DOMAIN out :
               /\ out[i] # <<>>
               /\ Len(out[i]) = Cardinality(Batch(i))
               /\ Batch(i) =
                      IF i = 1
                          THEN {n \in TheNodes : Predecessors(n) = {}}
                          ELSE {n \in TheNodes \ Earlier(i) :
                                   /\ Predecessors(n) \subseteq Earlier(i)
                                   /\ Predecessors(n) \cap Batch(i - 1) # {}}
        /\ (pc = "returned" /\ ~HasCycle(TheEdges)) =>
               /\ UNION {Batch(i) : i \in DOMAIN out} = TheNodes
               /\ \A i, j \in DOMAIN out : i # j => Batch(i) \cap Batch(j) = {}

BatchContentWitness ==
    /\ pc = "returned"
    /\ return_type = "groups"
    /\ Len(out) = 2
    /\ Len(out[1]) = 1
    /\ Len(out[2]) = 2

\* C4. BFS cycle reporting: on a graph with a cycle, method bfs ends in a
\* CycleError whose cycle closes (first = last) and follows edges of the
\* canonical graph, whatever the order of the nodes and of their neighbours.
BfsCycleReported ==
    (method = "bfs" /\ HasCycle(TheEdges) /\ Ended) =>
        /\ pc = "raised"
        /\ raised.error = "CycleError"
        /\ IsCycleOf(TheEdges, raised.cycle)

\* C5. DFS cycle reporting: on a graph with a cycle, method dfs ends in a
\* CycleError whose cycle closes and follows edges of the canonical graph,
\* under either graph type, with neighbours that are no keys and with
\* self-references.
DfsCycleReported ==
    (method = "dfs" /\ HasCycle(TheEdges) /\ Ended) =>
        /\ pc = "raised"
        /\ raised.error = "CycleError"
        /\ IsCycleOf(TheEdges, raised.cycle)

\* C6. Method agreement: a call with one method returns an ordering exactly
\* when the call with the other method on the same mapping and graph type
\* does, and a call fails exactly when the canonical graph has a cycle.
OtherMethod == IF method = "bfs" THEN "dfs" ELSE "bfs"

MethodAgreement ==
    Ended =>
        /\ pc = "returned" <=>
               TopologicalSort(graph, OtherMethod, "nodes", FALSE,
                               graph_type).raised.error = "none"
        /\ pc = "raised" <=> HasCycle(TheEdges)

MethodAgreementWitness ==
    /\ pc = "raised"
    /\ method = "bfs"
    /\ Cardinality(TheEdges) = 3
    /\ TopologicalSort(graph, "dfs", "nodes", FALSE,
                       graph_type).raised.error = "CycleError"

\* C7. Self-loop tolerance: a mapping that has entries naming their own key
\* and is acyclic once they are removed is sorted: the call returns an
\* ordering and never raises, for every method, return type and graph type.
SelfEntries == {e \in Entries(graph) : e[1] = e[2]}

SelfLoopTolerance ==
    (SelfEntries # {} /\ ~HasCycle(Entries(graph) \ SelfEntries)) =>
        /\ pc # "raised"
        /\ pc = "call" =>
               TopologicalSort(graph, method, return_type, sort_groups,
                               graph_type).raised.error = "none"

SelfLoopToleranceWitness ==
    /\ pc = "returned"
    /\ Cardinality(SelfEntries) = 2
    /\ Cardinality(TheNodes) = 2
    /\ TheEdges # {}

\* C8. Direction inversion: under "dependencies" every prerequisite p listed
\* for a key n # p comes before n in the flat result, and the canonical graph
\* has the nodes of the one built under "edges" and its edges reversed, each
\* as many times.
Count(d, u, v) ==
    IF u \in Keys(d)
        THEN Cardinality({j \in DOMAIN Lookup(d, u) : Lookup(d, u)[j] = v})
        ELSE 0

DirectionInversion ==
    graph_type = "dependencies" =>
        /\ (pc = "returned" /\ return_type = "nodes") =>
               \A e \in Entries(graph) :
                   e[1] # e[2] => Precedes(out, e[2], e[1])
        /\ pc \notin {"call", "prepare"} =>
               LET as_edges == PrepareGraph(graph).new_graph
               IN  /\ Keys(new_graph) = Keys(as_edges)
                   /\ \A u, v \in Nodes :
                          Count(new_graph, u, v) = Count(as_edges, v, u)

DirectionInversionWitness ==
    /\ pc = "returned"
    /\ graph_type = "dependencies"
    /\ method = "dfs"
    /\ Cardinality(TheEdges) = 3

\* C9. Parameter validation: topological_sort with a method, return type or
\* graph type out of range, or with dfs and groups, or with dfs and
\* sort_groups, ends in ValueError before anything is normalised or
\* traversed: no canonical graph, no frame, no element.
BadArguments ==
    \/ method \notin {"bfs", "dfs"}
    \/ return_type \notin {"nodes", "groups"}
    \/ graph_type \notin {"edges", "dependencies"}
    \/ method = "dfs" /\ return_type = "groups"
    \/ method = "dfs" /\ sort_groups

ParameterValidation ==
    (entry = "topological_sort" /\ BadArguments) =>
        /\ pc \in {"call", "raised"}
        /\ pc = "raised" => raised.error = "ValueError"
        /\ new_graph = <<>> /\ gen = NoFrame /\ dfs = NoFrame /\ out = <<>>

ParameterValidationWitness ==
    /\ entry = "topological_sort"
    /\ pc = "raised"
    /\ method = "dfs"
    /\ return_type = "nodes"
    /\ graph_type = "edges"
    /\ sort_groups
    /\ HasCycle(TheEdges)

\* C10. Streaming validation: topological_sort_generator with a return type
\* or a graph type out of range ends in ValueError and yields nothing.
StreamingValidation ==
    (/\ entry = "topological_sort_generator"
     /\ \/ return_type \notin {"nodes", "groups"}
        \/ graph_type \notin {"edges", "dependencies"}) =>
        /\ pc \in {"call", "raised"}
        /\ pc = "raised" => raised.error = "ValueError"
        /\ out = <<>>

\* C11. Lazy failure point: when the bfs producer is pulled element by element
\* on a graph with a cycle, an exception comes only from a pull made when the
\* frontier is empty and every node that can reach indegree zero has been
\* yielded; whatever was yielded up to any pull is valid (no node twice, every
\* predecessor of a yielded node yielded before it, in an earlier batch when
\* batches are yielded); and as long as pulls yield, no exception is seen.
CycleNodes(E) == {e[1] : e \in {x \in E : x[1] \in ReachableFrom(E, {x[2]})}}

AbleToReachZero == TheNodes \ ReachableFrom(TheEdges, CycleNodes(TheEdges))

RECURSIVE Flatten(_)
Flatten(s) == IF s = <<>> THEN <<>> ELSE Head(s) \o Flatten(Tail(s))

Yielded == IF return_type = "nodes" THEN out ELSE Flatten(out)

LazyFailurePoint ==
    (method = "bfs" /\ HasCycle(TheEdges)) =>
        /\ pc = "raised" =>
               /\ gen.queue = <<>>
               /\ AbleToReachZero \subseteq SeqToSet(Yielded)
        /\ \A i, j \in DOMAIN Yielded : Yielded[i] = Yielded[j] => i = j
        /\ IF return_type = "nodes"
               THEN \A i \in DOMAIN out :
                        Predecessors(out[i]) \subseteq
                            {out[j] : j \in 1 .. i - 1}
               ELSE \A i \in DOMAIN out :
                        \A n \in Batch(i) : Predecessors(n) \subseteq Earlier(i)
        /\ pc = "bfs" => raised = NoError
        /\ pc # "returned"

LazyFailurePointWitness ==
    /\ method = "bfs"
    /\ return_type = "nodes"
    /\ ~sort_groups
    /\ pc = "raised"
    /\ raised.error = "CycleError"
    /\ Len(out) = 1
    /\ AbleToReachZero = {out[1]}
    /\ Cardinality(TheNodes) = 3

\* C12. Flat sorted mode: on an acyclic graph, bfs with return_type "nodes"
\* and sort_groups returns the batches that bfs with return_type "groups" and
\* sort_groups returns on the same mapping, one after the other in their
\* order, and each of these batches is in ascending order.
Ascending(s) == \A i, j \in DOMAIN s : i < j => s[i] < s[j]

FlatSortedMode ==
    (/\ method = "bfs" /\ return_type = "nodes" /\ sort_groups
     /\ ~HasCycle(TheEdges) /\ Ended) =>
        LET groups == TopologicalSort(graph, "bfs", "groups", TRUE, graph_type)
        IN  /\ pc = "returned"
            /\ groups.raised = NoError
            /\ out = Flatten(groups.out)
            /\ \A i \in DOMAIN groups.out : Ascending(groups.out[i])

FlatSortedModeWitness ==
    /\ method = "bfs" /\ return_type = "nodes" /\ sort_groups
    /\ pc = "returned"
    /\ Len(out) = 3
    /\ Len(TopologicalSort(graph, "bfs", "groups", TRUE, graph_type).out) = 2
    /\ out # TopologicalSort(graph, "bfs", "nodes", FALSE, graph_type).out

\* C13. Bijection: after any statements run on an InvertibleDict made empty
\* or on its view inv, accepted or rejected, forward[k] = v exactly when
\* backward[v] = k; so no two keys hold the same value and the two dicts have
\* the same size.
Bijection ==
    entry = "InvertibleDict" =>
        /\ \A k \in KT \cup VT, v \in KT \cup VT :
               (k \in DOMAIN forward /\ forward[k] = v) <=>
                   (v \in DOMAIN backward /\ backward[v] = k)
        /\ \A j, k \in DOMAIN forward : forward[j] = forward[k] => j = k
        /\ Cardinality(DOMAIN forward) = Cardinality(DOMAIN backward)

BijectionWitness ==
    /\ entry = "InvertibleDict"
    /\ Cardinality(DOMAIN forward) = 2
    /\ last.op = "setitem"
    /\ last.on = "inv"
    /\ last.old # "None"
    /\ last.error = "none"

\* C14. Duplicate rejection: the statement d[k] = v run when v is a value of
\* d (of any key, k included) ends in ValueError and changes neither dict;
\* so does d.inv[v] = k run when k is a key of d.
Values(m) == {m[k] : k \in DOMAIN m}

DuplicateRejection ==
    [][(/\ last'.op = "setitem"
        /\ \/ last'.on = "d" /\ last'.value \in Values(forward)
           \/ last'.on = "inv" /\ last'.value \in DOMAIN forward) =>
           /\ last'.error = "ValueError"
           /\ forward' = forward
           /\ backward' = backward]_vars

DuplicateRejectionWitness ==
    /\ last.op = "setitem"
    /\ last.on = "inv"
    /\ last.error = "ValueError"
    /\ last.value \in DOMAIN forward
    /\ last.key \notin Values(forward)
    /\ Cardinality(DOMAIN forward) = 2

\* C15. Update: the statement d[k] = v2 run when d[k] = v1 and v2 is no value
\* of d is accepted; after it d[k] = v2 and d.inv[v2] = k, v1 is no key of
\* d.inv, and every other item of either dict is as it was.
Update ==
    [][(/\ last'.op = "setitem"
        /\ last'.on = "d"
        /\ last'.key \in DOMAIN forward
        /\ last'.value \notin Values(forward)) =>
           LET k == last'.key
               v1 == forward[k]
               v2 == last'.value
           IN  /\ last'.error = "none"
               /\ DOMAIN forward' = DOMAIN forward
               /\ forward'[k] = v2
               /\ \A j \in DOMAIN forward \ {k} : forward'[j] = forward[j]
               /\ DOMAIN backward' = (DOMAIN backward \ {v1}) \cup {v2}
               /\ backward'[v2] = k
               /\ v1 \notin DOMAIN backward'
               /\ \A w \in DOMAIN backward \ {v1} : backward'[w] = backward[w]
      ]_vars

UpdateWitness ==
    /\ last.op = "setitem"
    /\ last.on = "d"
    /\ last.old \notin {"None", last.value}
    /\ last.error = "none"
    /\ forward[last.key] = last.value
    /\ last.old \notin DOMAIN backward
    /\ Cardinality(DOMAIN forward) = 2

\* C16. Cycle search: on a mapping whose neighbours are all keys, and for
\* every start node, _get_cycle returns: a path that begins and ends at the
\* start node when a cycle passes through it, None when none does, also when
\* the start node reaches a cycle that does not pass through it.
OnCycle(E, n) == \E e \in E : e[1] = n /\ n \in ReachableFrom(E, {e[2]})

CycleLocated ==
    (entry = "_get_cycle" /\ Ended) =>
        /\ pc = "returned"
        /\ IF OnCycle(Entries(graph), start)
               THEN /\ Len(out) >= 2
                    /\ out[1] = start
                    /\ out[Len(out)] = start
               ELSE out = NoPath

\* C17. Self-loop equivalence: a call on a mapping and the same call on the
\* mapping without its entries that name their own key end alike, for every
\* method, return type, sort_groups and graph type: with the same ordering
\* when they return, with the same exception and the same cycle in it when
\* they fail.
WithoutSelf(g) ==
    [i \in DOMAIN g |->
        Item(g[i].node, SelectSeq(g[i].neighbours, LAMBDA x : x # g[i].node))]

SelfLoopEquivalence ==
    Ended =>
        LET other == TopologicalSort(WithoutSelf(graph), method, return_type,
                                     sort_groups, graph_type)
        IN  /\ other.raised = raised
            /\ pc = "returned" => other.out = out

\* C18. Normaliser postcondition: under both graph types, the nodes of the
\* canonical graph are the input keys and every neighbour they list; it has
\* no edge from a node to itself and, for u # v, the edge u -> v as many
\* times as the mapping lists it; and the indegree each node starts with is
\* the number of these edges that point to it.
RECURSIVE Sum(_, _)
Sum(f, S) ==
    IF S = {} THEN 0
    ELSE LET x == CHOOSE y \in S : TRUE IN f[x] + Sum(f, S \ {x})

\* how many times the mapping lists the edge u -> v
Listed(u, v) ==
    IF u = v THEN 0
    ELSE IF graph_type = "dependencies" THEN Count(graph, v, u)
    ELSE Count(graph, u, v)

NormaliserPostcondition ==
    pc \notin {"call", "prepare", "dict", "get_cycle"} =>
        LET indegree == Normalise(graph, graph_type).indegree
        IN  /\ Keys(new_graph) = TheNodes
            /\ Len(new_graph) = Cardinality(TheNodes)
            /\ \A u, v \in Nodes : Count(new_graph, u, v) = Listed(u, v)
            /\ \A v \in Nodes :
                   indegree[v] = Sum([u \in Nodes |-> Listed(u, v)], Nodes)
            /\ (method = "bfs" /\ gen.at = "start") => gen.indegree = indegree

NormaliserPostconditionWitness ==
    /\ pc = "bfs"
    /\ gen.at = "start"
    /\ graph_type = "dependencies"
    /\ SelfEntries # {}
    /\ Keys(graph) # TheNodes
    /\ \E v \in Nodes : gen.indegree[v] = 2

\* C19. Insertion-order independence: two mappings with the same keys and,
\* for each key, the same neighbours as many times, which differ only in the
\* order of the keys or of the neighbours, get the same result from bfs with
\* sort_groups, for return_type "nodes" and for "groups".
PermsOf(n) == {p \in [1 .. n -> 1 .. n] : \A i, j \in 1 .. n : p[i] = p[j] => i = j}

Shuffled(s) == {[i \in DOMAIN s |-> s[p[i]]] : p \in PermsOf(Len(s))}

NeighbourShuffles(g) ==
    {h \in [DOMAIN g ->
               UNION {{Item(g[i].node, nbs) : nbs \in Shuffled(g[i].neighbours)} :
                      i \in DOMAIN g}] :
        \A i \in DOMAIN g : h[i].node = g[i].node}

Rearrangements(g) == UNION {Shuffled(h) : h \in NeighbourShuffles(g)}

OrderIndependence ==
    (method = "bfs" /\ sort_groups /\ pc = "returned") =>
        \A h \in Rearrangements(graph) :
            TopologicalSort(h, "bfs", return_type, TRUE, graph_type) =
                [out |-> out, raised |-> NoError]

OrderIndependenceWitness ==
    /\ method = "bfs" /\ sort_groups /\ pc = "returned"
    /\ return_type = "groups"
    /\ Cardinality(Rearrangements(graph)) = 4
    /\ \E h \in Rearrangements(graph) :
           TopologicalSort(h, "bfs", "groups", FALSE, graph_type).out #
               TopologicalSort(graph, "bfs", "groups", FALSE, graph_type).out

\* C20. BFS bookkeeping: in every state of the bfs production, flat or in
\* batches, on graphs with and without cycles or repeated edges, the indegree
\* of each node is at least zero and is the number of canonical edges into it
\* whose source has not had its neighbours handled yet; and no node enters
\* the frontier twice: the nodes waiting (queue and next_degree) are distinct,
\* none of them has been taken before, and nodes were taken as many times as
\* there are nodes taken.
FlatUnsorted == return_type = "nodes" /\ ~sort_groups

\* the nodes whose neighbour loop has run: the flat producer yields a node
\* before that loop, the batch producer after it
Processed ==
    IF FlatUnsorted /\ gen.at = "yield"
        THEN gen.visited \ {gen.node}
        ELSE gen.visited

Waiting == gen.queue \o gen.next_degree

Taken ==
    IF FlatUnsorted THEN Len(out)
    ELSE IF return_type = "nodes" THEN Len(out) + Len(gen.group)
    ELSE Len(Flatten(out))

BfsBookkeeping ==
    (method = "bfs" /\ gen # NoFrame) =>
        /\ \A v \in Nodes :
               /\ gen.indegree[v] >= 0
               /\ gen.indegree[v] =
                      Sum([u \in Nodes |->
                              IF u \in Processed THEN 0
                              ELSE Count(new_graph, u, v)], Nodes)
        /\ \A i, j \in DOMAIN Waiting : Waiting[i] = Waiting[j] => i = j
        /\ SeqToSet(Waiting) \cap gen.visited = {}
        /\ Taken = Cardinality(gen.visited)

BfsBookkeepingWitness ==
    /\ method = "bfs"
    /\ FlatUnsorted
    /\ pc = "raised"
    /\ raised.error = "CycleError"
    /\ Cardinality(gen.visited) = 1
    /\ \E v \in Nodes :
           /\ gen.indegree[v] = 1
           /\ Sum([u \in Nodes |-> Count(new_graph, u, v)], Nodes) = 2

\* C21. DFS state: in every state of the depth-first traversal, no node is
\* both being visited and finished; the nodes being visited are exactly the
\* nodes of the calls of dfs that have not returned, one call each; every
\* successor of a finished node in the canonical graph is finished; and the
\* post-order list holds the finished nodes, each once, after all of its
\* successors.
Successors(n) == {e[2] : e \in {x \in TheEdges : x[1] = n}}

DfsState ==
    (method = "dfs" /\ pc \in {"dfs", "returned"}) =>
        /\ dfs.currently_visiting \cap dfs.visited = {}
        /\ dfs.currently_visiting =
               {dfs.stack[i].node : i \in DOMAIN dfs.stack}
        /\ Cardinality(dfs.currently_visiting) = Len(dfs.stack)
        /\ \A n \in dfs.visited : Successors(n) \subseteq dfs.visited
        /\ SeqToSet(dfs.sorted_list) = dfs.visited
        /\ Len(dfs.sorted_list) = Cardinality(dfs.visited)
        /\ \A i \in DOMAIN dfs.sorted_list :
               Successors(dfs.sorted_list[i]) \subseteq
                   {dfs.sorted_list[j] : j \in 1 .. i - 1}
        /\ pc = "returned" => dfs.stack = <<>> /\ dfs.visited = TheNodes

DfsStateWitness ==
    /\ method = "dfs"
    /\ pc = "dfs"
    /\ Len(dfs.stack) = 2
    /\ Cardinality(dfs.visited) = 1
    /\ HasCycle(TheEdges)
    /\ \E n \in dfs.currently_visiting : Successors(n) \cap dfs.visited # {}


=============================================================================
